---- MODULE Spec2Model ----
(***************************************************************************)
(* A model of the cpuinfo parser (src/lib.rs): the nom primitives it uses, *)
(* the value decoders, the 27 field parsers, the record assembler cpu, the *)
(* document assembler cpus (separated_list1) and the entry point cpuinfo.   *)
(* Text is a sequence of one-character strings.  A u32 is a pair <<hi, lo>> *)
(* of 16-bit limbs, so that the full 32-bit range and its overflow are      *)
(* exact.                                                                   *)
(***************************************************************************)
EXTENDS Integers, Sequences, FiniteSets, TLC

\* ---------------------------------------------------------------- text

Take(s, k) == SubSeq(s, 1, k)

Drop(s, k) == SubSeq(s, k + 1, Len(s))

StartsWith(s, t) == Len(s) >= Len(t) /\ Take(s, Len(t)) = t

RECURSIVE SpanFrom(_, _, _)
\* the number of leading elements of s, after the first k, that are in C
SpanFrom(s, C, k) ==
    IF k < Len(s) /\ s[k + 1] \in C THEN SpanFrom(s, C, k + 1) ELSE k

Span(s, C) == SpanFrom(s, C, 0)

RECURSIVE Flatten(_)
Flatten(ss) == IF ss = <<>> THEN <<>> ELSE Head(ss) \o Flatten(Tail(ss))

DecDigits == {"0","1","2","3","4","5","6","7","8","9"}

LowerHex == {"a","b","c","d","e","f"}

UpperHex == {"A","B","C","D","E","F"}

LowerAlpha == {"a","b","c","d","e","f","g","h","i","j","k","l","m","n","o","p","q","r","s","t","u","v","w","x","y","z"}

UpperAlpha == {"A","B","C","D","E","F","G","H","I","J","K","L","M","N","O","P","Q","R","S","T","U","V","W","X","Y","Z"}

DigitSeq == <<"0","1","2","3","4","5","6","7","8","9","a","b","c","d","e","f">>

\* to_digit with the letters A-F counted from 0 instead of 10
ToDigit_upper_from_zero(c) ==
    IF c \in UpperHex
    THEN (CHOOSE d \in 1..6 : <<"A","B","C","D","E","F">>[d] = c) - 1
    ELSE (CHOOSE d \in 1..16 : DigitSeq[d] = c) - 1

\* char::to_digit: the value of a decimal or hexadecimal digit, either case
ToDigit(c) ==
    IF c \in UpperHex
    THEN 9 + (CHOOSE d \in 1..6 : <<"A","B","C","D","E","F">>[d] = c)
    ELSE (CHOOSE d \in 1..16 : DigitSeq[d] = c) - 1

\* ---------------------------------------------------------------- u32

Limb == 2 ^ 16

U32(n) == <<n \div Limb, n % Limb>>

\* v * m + d over the limbs, exact: the high limb is left unreduced
MulAdd(v, m, d) ==
    LET lo == v[2] * m + d
    IN  <<v[1] * m + (lo \div Limb), lo % Limb>>

FitsU32(v) == v[1] < Limb

Overflow == <<>>

RECURSIVE CheckedFold(_, _, _, _)
\* value.checked_mul(radix).and_then(|v| v.checked_add(d)) over the digits
CheckedFold(ds, radix, k, acc) ==
    IF k > Len(ds) THEN acc
    ELSE LET n == MulAdd(acc, radix, ToDigit(ds[k]))
         IN  IF FitsU32(n) THEN CheckedFold(ds, radix, k + 1, n) ELSE Overflow

\* u32::wrapping_mul by a small factor
WrappingMul(v, m) ==
    LET n == MulAdd(v, m, 0)
    IN  <<n[1] % Limb, n[2]>>

\* ---------------------------------------------------------------- IResult

Ok(rest, val) == [kind |-> "Ok", rest |-> rest, val |-> val]

\* Err::Error: recoverable, alt/opt/separated_list turn it into an alternative
Error(at) == [kind |-> "Error", rest |-> at, val |-> <<>>]

\* Err::Failure: produced by cut, propagated by every combinator
Failure(at) == [kind |-> "Failure", rest |-> at, val |-> <<>>]

\* an arithmetic-overflow panic (overflow-checks on): unwinds through the parse
Panic(at) == [kind |-> "Panic", rest |-> at, val |-> <<>>]

IsOk(r) == r.kind = "Ok"

\* ---------------------------------------------------------------- nom primitives

tag(t, input) ==
    IF StartsWith(input, t) THEN Ok(Drop(input, Len(t)), t) ELSE Error(input)

space0(input) ==
    LET k == Span(input, {" ","\t"})
    IN  Ok(Drop(input, k), Take(input, k))

line_ending(input) ==
    IF StartsWith(input, <<"\n">>) THEN Ok(Drop(input, 1), <<"\n">>)
    ELSE IF StartsWith(input, <<"\r","\n">>) THEN Ok(Drop(input, 2), <<"\r","\n">>)
    ELSE Error(input)

alpha1(input) ==
    LET k == Span(input, LowerAlpha \cup UpperAlpha)
    IN  IF k = 0 THEN Error(input) ELSE Ok(Drop(input, k), Take(input, k))

alphanumeric1(input) ==
    LET k == Span(input, LowerAlpha \cup UpperAlpha \cup DecDigits)
    IN  IF k = 0 THEN Error(input) ELSE Ok(Drop(input, k), Take(input, k))

not_line_ending(input) ==
    LET k    == SpanFrom(input, {c \in {input[j] : j \in 1..Len(input)} : c \notin {"\r","\n"}}, 0)
        tail == Drop(input, k)
    IN  IF k < Len(input) /\ input[k + 1] = "\r" /\ ~StartsWith(tail, <<"\r","\n">>)
        THEN Error(input)
        ELSE Ok(tail, Take(input, k))

\* character::complete::u32: decimal digits, no sign, an error on overflow
complete_u32(input) ==
    LET k == Span(input, DecDigits)
        v == CheckedFold(Take(input, k), 10, 1, <<0, 0>>)
    IN  IF k = 0 \/ v = Overflow THEN Error(input) ELSE Ok(Drop(input, k), v)

RECURSIVE DecValue(_, _, _)
DecValue(ds, k, acc) ==
    IF k > Len(ds) THEN acc ELSE DecValue(ds, k + 1, acc * 10 + ToDigit(ds[k]))

RECURSIVE Normal(_, _)
\* mant * 10^exp with no trailing zero in mant
Normal(mant, exp) ==
    IF mant = 0 THEN <<0, 0>>
    ELSE IF mant % 10 = 0 THEN Normal(mant \div 10, exp + 1)
    ELSE <<mant, exp>>

\* <<the leading elements of s that are in C, the rest of s>>
SplitSpan(s, C) == <<Take(s, Span(s, C)), Drop(s, Span(s, C))>>

NextIs(s, C) == s # <<>> /\ s[1] \in C

\* recognize_float, in four steps over what is recognized so far:
\* [+-] (digits [. [digits]] | . digits) [(e|E) [+-] digits]
FloatSign(input) ==
    [neg |-> NextIs(input, {"-"}), int |-> <<>>, frac |-> <<>>, eneg |-> FALSE,
     e |-> <<>>, bad |-> "", rest |-> IF NextIs(input, {"+","-"}) THEN Tail(input) ELSE input]

FloatInt(p) ==
    LET d == SplitSpan(p.rest, DecDigits)
    IN  [p EXCEPT !.int = d[1], !.rest = d[2]]

FloatFrac(p) ==
    IF NextIs(p.rest, {"."})
    THEN LET d == SplitSpan(Tail(p.rest), DecDigits)
         IN  IF p.int = <<>> /\ d[1] = <<>> THEN [p EXCEPT !.bad = "Error"]
             ELSE [p EXCEPT !.frac = d[1], !.rest = d[2]]
    ELSE IF p.int = <<>> THEN [p EXCEPT !.bad = "Error"]
    ELSE p

\* the exponent's digits are under cut: an `e` with no digit is Err::Failure
FloatExp(p) ==
    IF p.bad = "" /\ NextIs(p.rest, {"e","E"})
    THEN LET signed == NextIs(Tail(p.rest), {"+","-"})
             d      == SplitSpan(Drop(p.rest, IF signed THEN 2 ELSE 1), DecDigits)
         IN  IF d[1] = <<>> THEN [p EXCEPT !.bad = "Failure", !.rest = d[2]]
             ELSE [p EXCEPT !.eneg = NextIs(Tail(p.rest), {"-"}), !.e = d[1], !.rest = d[2]]
    ELSE p

\* the exact decimal a recognized float stands for: [neg, mant, exp] is
\* (-1)^neg * mant * 10^exp; f32 rounding is not modelled
FloatValue(p) ==
    LET e  == DecValue(p.e, 1, 0)
        nv == Normal(DecValue(p.int \o p.frac, 1, 0),
                     (IF p.eneg THEN 0 - e ELSE e) - Len(p.frac))
    IN  [neg |-> p.neg /\ nv[1] # 0, mant |-> nv[1], exp |-> nv[2]]

FloatResult(input, p) ==
    IF p.bad = "Error" THEN Error(input)
    ELSE IF p.bad = "Failure" THEN Failure(p.rest)
    ELSE Ok(p.rest, FloatValue(p))

\* number::complete::float
float(input) == FloatResult(input, FloatExp(FloatFrac(FloatInt(FloatSign(input)))))

\* ---------------------------------------------------------------- decoders

\* The combinators below take the result of the parser before them, so that a
\* parser sequence reads inside out: an error of an earlier parser is passed on.

\* the value val in place of the value of r (map, and the kept side of
\* pair / terminated / separated_pair)
keep(r, val) == IF IsOk(r) THEN Ok(r.rest, val) ELSE r

\* after v, the literal t: the value of v is kept
then_tag(v, t) == IF IsOk(v) THEN keep(tag(t, v.rest), v.val) ELSE v

\* terminated(v, line_ending)
then_line_ending(v) == IF IsOk(v) THEN keep(line_ending(v.rest), v.val) ELSE v

\* alt((a, b)) of two parsers applied to the same input
alt(a, b) == IF a.kind = "Error" THEN b ELSE a

separator(input) ==
    LET b == tag(<<":">>, space0(input).rest)
    IN  IF IsOk(b) THEN Ok(space0(b.rest).rest, <<>>) ELSE b

\* separated_pair's field_name and separator: the remainder the value starts at
field_name(name, input) ==
    LET n == tag(name, input)
    IN  IF IsOk(n) THEN separator(n.rest) ELSE n

\* field_value without terminated(.., line_ending)
field_value_unterminated(s, v) == IF IsOk(s) THEN v ELSE s

\* map(terminated(separated_pair(field_name, separator, field_value), line_ending), |(_, v)| v)
\* with s the result of field_name and separator, v that of the value decoder on s.rest
field_value(s, v) == IF IsOk(s) THEN then_line_ending(v) ELSE s

\* boolean with every token other than "yes" mapped like "yes"
boolean_no_as_true(input) ==
    alt(keep(tag(<<"y","e","s">>, input), TRUE), keep(tag(<<"n","o">>, input), TRUE))

boolean(input) ==
    alt(keep(tag(<<"y","e","s">>, input), TRUE), keep(tag(<<"n","o">>, input), FALSE))

ListChars == {"a","b","c","d","e","f","g","h","i","j","k","l","m","n","o","p","q","r","s","t","u","v","w","x","y","z","0","1","2","3","4","5","6","7","8","9","0","_"}

\* recognize(many1(one_of(...)))
list_item(input) ==
    LET k == Span(input, ListChars)
    IN  IF k = 0 THEN Error(input) ELSE Ok(Drop(input, k), Take(input, k))

RECURSIVE list_loop(_, _)
\* the loop of separated_list0: a separator, then an element, else stop before
\* the separator (tag(" ") always consumes, so the no-progress check never fires)
list_loop(i, res) ==
    LET o == list_item(tag(<<" ">>, i).rest)
    IN  IF IsOk(tag(<<" ">>, i)) /\ IsOk(o) THEN list_loop(o.rest, Append(res, o.val))
        ELSE Ok(i, res)

\* list built on separated_list1: no element is an error
list_nonempty(input) ==
    LET o == list_item(input)
    IN  IF ~IsOk(o) THEN o ELSE list_loop(o.rest, <<o.val>>)

list(input) ==
    LET o == list_item(input)
    IN  IF ~IsOk(o) THEN Ok(input, <<>>) ELSE list_loop(o.rest, <<o.val>>)

HexChars == {"0","1","2","3","4","5","6","7","8","9","a","b","c","d","e","f","A","B","C","D","E","F"}

\* map_res(recognize(many1(one_of(...))), |out| u32::from_str_radix(out, 16))
\* after the prefix p
hex_digits(input, p) ==
    LET k == Span(p.rest, HexChars)
        v == CheckedFold(Take(p.rest, k), 16, 1, <<0, 0>>)
    IN  IF ~IsOk(p) THEN p
        ELSE IF k = 0 THEN Error(p.rest)
        ELSE IF v = Overflow THEN Error(input)
        ELSE Ok(Drop(p.rest, k), v)

hexadecimal(input) == hex_digits(input, alt(tag(<<"0","x">>, input), tag(<<"0","X">>, input)))

physical_size(input) == then_tag(complete_u32(input), <<" ","b","i","t","s"," ","p","h","y","s","i","c","a","l">>)

virtual_size(input) == then_tag(complete_u32(input), <<" ","b","i","t","s"," ","v","i","r","t","u","a","l">>)

AddressSizes(p, v) == [physical_size |-> p, virtual_size |-> v]

\* the pair stored the other way round
address_pair_swapped(c, v) == IF IsOk(c) THEN keep(v, AddressSizes(v.val, c.val)) ELSE c

\* separated_pair(physical_size, tag(", "), virtual_size) after c, the result of
\* physical_size and tag(", ")
address_pair(c, v) == IF IsOk(c) THEN keep(v, AddressSizes(c.val, v.val)) ELSE c

address_sizes_value(input) ==
    LET c == then_tag(physical_size(input), <<","," ">>)
    IN  address_pair(c, virtual_size(c.rest))

None == <<>>

Some(v) == <<v>>

\* p in place of opt(p): a value is required
opt_required(input, p) == IF IsOk(p) THEN Ok(p.rest, Some(p.val)) ELSE p

\* opt(p): an Err::Error of p is no value and nothing consumed
opt(input, p) ==
    IF IsOk(p) THEN Ok(p.rest, Some(p.val))
    ELSE IF p.kind = "Error" THEN Ok(input, None)
    ELSE p

\* ---------------------------------------------------------------- field parsers

processor(input) ==
    LET s == field_name(<<"p","r","o","c","e","s","s","o","r">>, input)
    IN  field_value(s, complete_u32(s.rest))

vendor_id(input) ==
    LET s == field_name(<<"v","e","n","d","o","r","_","i","d">>, input)
    IN  field_value(s, alpha1(s.rest))

cpu_family(input) ==
    LET s == field_name(<<"c","p","u"," ","f","a","m","i","l","y">>, input)
    IN  field_value(s, complete_u32(s.rest))

model(input) ==
    LET s == field_name(<<"m","o","d","e","l">>, input)
    IN  field_value(s, complete_u32(s.rest))

model_name(input) ==
    LET s == field_name(<<"m","o","d","e","l"," ","n","a","m","e">>, input)
    IN  field_value(s, not_line_ending(s.rest))

stepping(input) ==
    LET s == field_name(<<"s","t","e","p","p","i","n","g">>, input)
    IN  field_value(s, complete_u32(s.rest))

microcode(input) ==
    LET s == field_name(<<"m","i","c","r","o","c","o","d","e">>, input)
    IN  field_value(s, hexadecimal(s.rest))

cpu_mhz(input) ==
    LET s == field_name(<<"c","p","u"," ","M","H","z">>, input)
    IN  field_value(s, float(s.rest))

KB == 1024

\* tuple((space0, tag("KB"), line_ending)) after the number v
kb_line_ending(v) ==
    IF IsOk(v) THEN then_line_ending(keep(tag(<<"K","B">>, space0(v.rest).rest), v.val)) ELSE v

\* |(_, cache_size)| cache_size * 1024 on the result r; overflow_checks is the
\* build's setting (on in a debug build: the product panics on overflow; off
\* in a release build: it wraps)
times_1024(input, r, overflow_checks) ==
    IF ~IsOk(r) THEN r
    ELSE IF overflow_checks /\ ~FitsU32(MulAdd(r.val, KB, 0)) THEN Panic(input)
    ELSE Ok(r.rest, WrappingMul(r.val, KB))

cache_size(input, overflow_checks) ==
    LET s == field_name(<<"c","a","c","h","e"," ","s","i","z","e">>, input)
    IN  times_1024(input,
                   IF IsOk(s) THEN kb_line_ending(complete_u32(s.rest)) ELSE s,
                   overflow_checks)

physical_id(input) ==
    LET s == field_name(<<"p","h","y","s","i","c","a","l"," ","i","d">>, input)
    IN  field_value(s, complete_u32(s.rest))

siblings(input) ==
    LET s == field_name(<<"s","i","b","l","i","n","g","s">>, input)
    IN  field_value(s, complete_u32(s.rest))

core_id(input) ==
    LET s == field_name(<<"c","o","r","e"," ","i","d">>, input)
    IN  field_value(s, complete_u32(s.rest))

cpu_cores(input) ==
    LET s == field_name(<<"c","p","u"," ","c","o","r","e","s">>, input)
    IN  field_value(s, complete_u32(s.rest))

apicid(input) ==
    LET s == field_name(<<"a","p","i","c","i","d">>, input)
    IN  field_value(s, complete_u32(s.rest))

initial_apicid(input) ==
    LET s == field_name(<<"i","n","i","t","i","a","l"," ","a","p","i","c","i","d">>, input)
    IN  field_value(s, complete_u32(s.rest))

fpu(input) ==
    LET s == field_name(<<"f","p","u">>, input)
    IN  field_value(s, boolean(s.rest))

fpu_exception(input) ==
    LET s == field_name(<<"f","p","u","_","e","x","c","e","p","t","i","o","n">>, input)
    IN  field_value(s, boolean(s.rest))

cpuid_level(input) ==
    LET s == field_name(<<"c","p","u","i","d"," ","l","e","v","e","l">>, input)
    IN  field_value(s, complete_u32(s.rest))

wp(input) ==
    LET s == field_name(<<"w","p">>, input)
    IN  field_value(s, boolean(s.rest))

flags(input) ==
    LET s == field_name(<<"f","l","a","g","s">>, input)
    IN  field_value(s, list(s.rest))

vmx_flags(input) ==
    LET s == field_name(<<"v","m","x"," ","f","l","a","g","s">>, input)
    IN  field_value(s, list(s.rest))

bugs(input) ==
    LET s == field_name(<<"b","u","g","s">>, input)
    IN  field_value(s, list(s.rest))

bogomips(input) ==
    LET s == field_name(<<"b","o","g","o","m","i","p","s">>, input)
    IN  field_value(s, float(s.rest))

clflush_size(input) ==
    LET s == field_name(<<"c","l","f","l","u","s","h"," ","s","i","z","e">>, input)
    IN  field_value(s, complete_u32(s.rest))

cache_alignment(input) ==
    LET s == field_name(<<"c","a","c","h","e","_","a","l","i","g","n","m","e","n","t">>, input)
    IN  field_value(s, complete_u32(s.rest))

address_sizes(input) ==
    LET s == field_name(<<"a","d","d","r","e","s","s"," ","s","i","z","e","s">>, input)
    IN  field_value(s, address_sizes_value(s.rest))

power_management(input) ==
    LET s == field_name(<<"p","o","w","e","r"," ","m","a","n","a","g","e","m","e","n","t">>, input)
    IN  field_value(s, opt(s.rest, alphanumeric1(s.rest)))

\* ---------------------------------------------------------------- cpu

\* cpu with `physical id` and `siblings` extracted in the other order
cpu_fields_swapped ==
    <<"processor", "vendor_id", "cpu_family", "model", "model_name",
      "stepping", "microcode", "cpu_mhz", "cache_size", "siblings",
      "physical_id", "core_id", "cpu_cores", "apicid", "initial_apicid",
      "fpu", "fpu_exception", "cpuid_level", "wp", "flags", "vmx_flags",
      "bugs", "bogomips", "clflush_size", "cache_alignment", "address_sizes",
      "power_management">>

\* the field parsers cpu applies, in the order of its `let (input, x) = x(input)?`
cpu_fields ==
    <<"processor", "vendor_id", "cpu_family", "model", "model_name",
      "stepping", "microcode", "cpu_mhz", "cache_size", "physical_id",
      "siblings", "core_id", "cpu_cores", "apicid", "initial_apicid", "fpu",
      "fpu_exception", "cpuid_level", "wp", "flags", "vmx_flags", "bugs",
      "bogomips", "clflush_size", "cache_alignment", "address_sizes",
      "power_management">>

NumFields == Len(cpu_fields)

\* the call x(input) of the field parser named x
FieldParser(x, input, overflow_checks) ==
    CASE x = "processor"         -> processor(input)
      [] x = "vendor_id"         -> vendor_id(input)
      [] x = "cpu_family"        -> cpu_family(input)
      [] x = "model"             -> model(input)
      [] x = "model_name"        -> model_name(input)
      [] x = "stepping"          -> stepping(input)
      [] x = "microcode"         -> microcode(input)
      [] x = "cpu_mhz"           -> cpu_mhz(input)
      [] x = "cache_size"        -> cache_size(input, overflow_checks)
      [] x = "physical_id"       -> physical_id(input)
      [] x = "siblings"          -> siblings(input)
      [] x = "core_id"           -> core_id(input)
      [] x = "cpu_cores"         -> cpu_cores(input)
      [] x = "apicid"            -> apicid(input)
      [] x = "initial_apicid"    -> initial_apicid(input)
      [] x = "fpu"               -> fpu(input)
      [] x = "fpu_exception"     -> fpu_exception(input)
      [] x = "cpuid_level"       -> cpuid_level(input)
      [] x = "wp"                -> wp(input)
      [] x = "flags"             -> flags(input)
      [] x = "vmx_flags"         -> vmx_flags(input)
      [] x = "bugs"              -> bugs(input)
      [] x = "bogomips"          -> bogomips(input)
      [] x = "clflush_size"      -> clflush_size(input)
      [] x = "cache_alignment"   -> cache_alignment(input)
      [] x = "address_sizes"     -> address_sizes(input)
      [] x = "power_management"  -> power_management(input)

\* the struct literal of cpu: field k of the record is the k-th value decoded
Cpu(v) ==
    [processor |-> v[1], vendor_id |-> v[2], cpu_family |-> v[3], model |-> v[4],
     model_name |-> v[5], stepping |-> v[6], microcode |-> v[7], cpu_mhz |-> v[8],
     cache_size |-> v[9], physical_id |-> v[10], siblings |-> v[11],
     core_id |-> v[12], cpu_cores |-> v[13], apicid |-> v[14],
     initial_apicid |-> v[15], fpu |-> v[16], fpu_exception |-> v[17],
     cpuid_level |-> v[18], wp |-> v[19], flags |-> v[20], vmx_flags |-> v[21],
     bugs |-> v[22], bogomips |-> v[23], clflush_size |-> v[24],
     cache_alignment |-> v[25], address_sizes |-> v[26],
     power_management |-> v[27]]

\* ---------------------------------------------------------------- inputs

MaxRecords == 2

\* the field names of a processor record, in the order of the listing
LineName(f) ==
    CASE f = 1  -> <<"p","r","o","c","e","s","s","o","r">>
      [] f = 2  -> <<"v","e","n","d","o","r","_","i","d">>
      [] f = 3  -> <<"c","p","u"," ","f","a","m","i","l","y">>
      [] f = 4  -> <<"m","o","d","e","l">>
      [] f = 5  -> <<"m","o","d","e","l"," ","n","a","m","e">>
      [] f = 6  -> <<"s","t","e","p","p","i","n","g">>
      [] f = 7  -> <<"m","i","c","r","o","c","o","d","e">>
      [] f = 8  -> <<"c","p","u"," ","M","H","z">>
      [] f = 9  -> <<"c","a","c","h","e"," ","s","i","z","e">>
      [] f = 10 -> <<"p","h","y","s","i","c","a","l"," ","i","d">>
      [] f = 11 -> <<"s","i","b","l","i","n","g","s">>
      [] f = 12 -> <<"c","o","r","e"," ","i","d">>
      [] f = 13 -> <<"c","p","u"," ","c","o","r","e","s">>
      [] f = 14 -> <<"a","p","i","c","i","d">>
      [] f = 15 -> <<"i","n","i","t","i","a","l"," ","a","p","i","c","i","d">>
      [] f = 16 -> <<"f","p","u">>
      [] f = 17 -> <<"f","p","u","_","e","x","c","e","p","t","i","o","n">>
      [] f = 18 -> <<"c","p","u","i","d"," ","l","e","v","e","l">>
      [] f = 19 -> <<"w","p">>
      [] f = 20 -> <<"f","l","a","g","s">>
      [] f = 21 -> <<"v","m","x"," ","f","l","a","g","s">>
      [] f = 22 -> <<"b","u","g","s">>
      [] f = 23 -> <<"b","o","g","o","m","i","p","s">>
      [] f = 24 -> <<"c","l","f","l","u","s","h"," ","s","i","z","e">>
      [] f = 25 -> <<"c","a","c","h","e","_","a","l","i","g","n","m","e","n","t">>
      [] f = 26 -> <<"a","d","d","r","e","s","s"," ","s","i","z","e","s">>
      [] f = 27 -> <<"p","o","w","e","r"," ","m","a","n","a","g","e","m","e","n","t">>

\* the value of field f in the k-th record of an unmodified listing
BaseValue(k, f) ==
    CASE f = 1  -> <<DigitSeq[k]>>
      [] f = 2  -> <<"G","e","n","u","i","n","e","I","n","t","e","l">>
      [] f = 3  -> <<"6">>
      [] f = 4  -> <<"9","4">>
      [] f = 5  -> <<"C","o","r","e","(","T","M",")"," ","i","7"," ","@"," ","4",".","0","0","G","H","z">>
      [] f = 6  -> <<"3">>
      [] f = 7  -> <<"0","x","f","0">>
      [] f = 8  -> <<"8","0","0",".","0","0","4">>
      [] f = 9  -> <<"8","1","9","2"," ","K","B">>
      [] f = 10 -> <<"0">>
      [] f = 11 -> <<"8">>
      [] f = 12 -> <<"2">>
      [] f = 13 -> <<"4">>
      [] f = 14 -> <<"5">>
      [] f = 15 -> <<"5">>
      [] f = 16 -> <<"y","e","s">>
      [] f = 17 -> <<"y","e","s">>
      [] f = 18 -> <<"2","2">>
      [] f = 19 -> <<"y","e","s">>
      [] f = 20 -> <<"f","p","u"," ","v","m","e"," ","d","e">>
      [] f = 21 -> <<"v","n","m","i"," ","e","p","t","_","1","g","b">>
      [] f = 22 -> <<"s","p","e","c","t","r","e","_","v","1"," ","l","1","t","f">>
      [] f = 23 -> <<"8","0","0","3",".","3","0">>
      [] f = 24 -> <<"6","4">>
      [] f = 25 -> <<"6","4">>
      [] f = 26 -> <<"3","9"," ","b","i","t","s"," ","p","h","y","s","i","c","a","l",","," ","4","8"," ","b","i","t","s"," ","v","i","r","t","u","a","l">>
      [] f = 27 -> <<>>

BaseSep(f) == IF f = 27 THEN <<":">> ELSE <<"\t",":"," ">>

\* the record the k-th unmodified record stands for (written out by hand)
BaseCpu(k) ==
    [processor |-> <<0, k - 1>>, vendor_id |-> <<"G","e","n","u","i","n","e","I","n","t","e","l">>,
     cpu_family |-> <<0, 6>>, model |-> <<0, 94>>,
     model_name |-> <<"C","o","r","e","(","T","M",")"," ","i","7"," ","@"," ","4",".","0","0","G","H","z">>, stepping |-> <<0, 3>>,
     microcode |-> <<0, 240>>,
     cpu_mhz |-> [neg |-> FALSE, mant |-> 800004, exp |-> -3],
     cache_size |-> <<128, 0>>, physical_id |-> <<0, 0>>, siblings |-> <<0, 8>>,
     core_id |-> <<0, 2>>, cpu_cores |-> <<0, 4>>, apicid |-> <<0, 5>>,
     initial_apicid |-> <<0, 5>>, fpu |-> TRUE, fpu_exception |-> TRUE,
     cpuid_level |-> <<0, 22>>, wp |-> TRUE,
     flags |-> <<<<"f","p","u">>, <<"v","m","e">>, <<"d","e">>>>,
     vmx_flags |-> <<<<"v","n","m","i">>, <<"e","p","t","_","1","g","b">>>>,
     bugs |-> <<<<"s","p","e","c","t","r","e","_","v","1">>, <<"l","1","t","f">>>>,
     bogomips |-> [neg |-> FALSE, mant |-> 80033, exp |-> -1],
     clflush_size |-> <<0, 64>>, cache_alignment |-> <<0, 64>>,
     address_sizes |-> [physical_size |-> <<0, 39>>, virtual_size |-> <<0, 48>>],
     power_management |-> <<>>]

U32Fields == {1, 3, 4, 6, 10, 11, 12, 13, 14, 15, 18, 24, 25}

BoolFields == {16, 17, 19}

ListFields == {20, 21, 22}

FloatFields == {8, 23}

U32Texts ==
    {<<"7">>, <<"0","0","7">>, <<"6","5","5","3","6">>, <<"4","2","9","4","9","6","7","2","9","5">>, <<"4","2","9","4","9","6","7","2","9","6">>, <<"9","9","9","9","9","9","9","9","9","9","9">>,
     <<>>, <<"x">>, <<"-","1">>, <<"1","x">>, <<"1"," ">>}

BoolTexts ==
    {<<"y","e","s">>, <<"n","o">>, <<"n","o","p","e">>, <<"y","e","s","n","o">>, <<"Y","e","s">>, <<"N","O">>, <<>>, <<"y">>, <<"t","r","u","e">>, <<"n","o"," ">>}

ListTexts ==
    {<<>>, <<"a">>, <<"f","p","u"," ","v","m","e">>, <<"d","e"," ","d","e">>, <<"x","8","6","_","6","4"," ","a","1"," ","_">>, <<"0">>,
     <<"a"," "," ","b">>, <<"a"," ">>, <<"A">>, <<"a","-","b">>, <<"a",",","b">>, <<"a","\t","b">>, <<"f","p","u"," ","V","m","e">>, <<"-">>}

HexTexts ==
    {<<"0","x","f","0">>, <<"0","X","A","B">>, <<"0","x","a","B">>, <<"0","x","0">>, <<"0","x","F","F","F","F","F","F","F","F">>, <<"0","x","0","0","0","0","0","0","0","0","0","1">>,
     <<"0","x">>, <<"0","X">>, <<"f","0">>, <<"x","1","0">>, <<"0","x","g">>, <<"0","x","f","0","g">>, <<"0","x"," ","f","0">>, <<"0","x","1","0","0","0","0","0","0","0","0">>,
     <<"2","4","0">>, <<"0","x","f","0"," ">>}

FloatTexts ==
    {<<"4","0","0","0",".","0","0","0">>, <<"1">>, <<".","5">>, <<"1",".">>, <<"1","e","3">>, <<"-","2",".","5","E","-","2">>, <<>>, <<"a","b","c">>, <<"1","e">>, <<"1",".","2",".","3">>, <<".">>}

CacheTexts ==
    {<<"0"," ","K","B">>, <<"8","1","9","2","K","B">>, <<"8","1","9","2"," "," ","K","B">>, <<"8","1","9","2","\t","K","B">>, <<"4","1","9","4","3","0","3"," ","K","B">>, <<"4","1","9","4","3","0","4"," ","K","B">>,
     <<"4","2","9","4","9","6","7","2","9","5"," ","K","B">>, <<"4","2","9","4","9","6","7","2","9","6"," ","K","B">>, <<"8","1","9","2">>, <<"8","1","9","2"," ","M","B">>, <<"8","1","9","2"," ","k","b">>,
     <<"8","1","9","2"," ","K">>, <<" ","K","B">>, <<"8","1","9","2"," ","K","B"," ">>}

AddressTexts ==
    {<<"0"," ","b","i","t","s"," ","p","h","y","s","i","c","a","l",","," ","0"," ","b","i","t","s"," ","v","i","r","t","u","a","l">>, <<"3","9"," ","p","h","y","s","i","c","a","l",","," ","4","8"," ","v","i","r","t","u","a","l">>,
     <<"3","9"," ","b","i","t","s"," ","p","h","y","s","i","c","a","l"," ","4","8"," ","b","i","t","s"," ","v","i","r","t","u","a","l">>, <<"3","9"," ","b","i","t","s"," ","p","h","y","s","i","c","a","l",",","4","8"," ","b","i","t","s"," ","v","i","r","t","u","a","l">>,
     <<"3","9"," ","b","i","t","s"," ","v","i","r","t","u","a","l",","," ","4","8"," ","b","i","t","s"," ","p","h","y","s","i","c","a","l">>, <<"3","9"," ","b","i","t","s"," ","p","h","y","s","i","c","a","l",","," ","4","8"," ","b","i","t","s">>,
     <<"3","9"," ","b","i","t","s"," ","p","h","y","s","i","c","a","l",","," ","4","8"," ","b","i","t","s"," ","v","i","r","t","u","a","l"," ","x">>, <<"3","9","b","i","t","s"," ","p","h","y","s","i","c","a","l",","," ","4","8"," ","b","i","t","s"," ","v","i","r","t","u","a","l">>,
     <<"5","2"," ","b","i","t","s"," ","p","h","y","s","i","c","a","l",","," ","5","7"," ","b","i","t","s"," ","v","i","r","t","u","a","l">>, <<"4","8"," ","b","i","t","s"," ","p","h","y","s","i","c","a","l",","," ","3","9"," ","b","i","t","s"," ","v","i","r","t","u","a","l">>,
     <<"4","2","9","4","9","6","7","2","9","5"," ","b","i","t","s"," ","p","h","y","s","i","c","a","l",","," ","6","5","5","3","6"," ","b","i","t","s"," ","v","i","r","t","u","a","l">>, <<"4","2","9","4","9","6","7","2","9","6"," ","b","i","t","s"," ","p","h","y","s","i","c","a","l",","," ","4","8"," ","b","i","t","s"," ","v","i","r","t","u","a","l">>,
     <<"3","9"," ","B","i","t","s"," ","p","h","y","s","i","c","a","l",","," ","4","8"," ","b","i","t","s"," ","v","i","r","t","u","a","l">>, <<"3","9"," ","b","i","t","s"," ","p","h","y","s","i","c","a","l",","," ","4","8"," ","b","i","t","s"," ","v","i","r","t","u","a","l",",">>, <<" ","b","i","t","s"," ","p","h","y","s","i","c","a","l",","," ","4","8"," ","b","i","t","s"," ","v","i","r","t","u","a","l">>,
     <<"3","9"," "," ","b","i","t","s"," ","p","h","y","s","i","c","a","l",","," ","4","8"," ","b","i","t","s"," ","v","i","r","t","u","a","l">>, <<"3","9"," ","b","i","t","s"," ","p","h","y","s","i","c","a","l",","," "," ","4","8"," ","b","i","t","s"," ","v","i","r","t","u","a","l">>, <<>>}

\* the values field f takes, one at a time, in place of its value in the listing
ValueTexts(f) ==
    CASE f = 1           -> U32Texts
      [] f \in U32Fields \ {1} -> {<<"7">>, <<"x">>, <<>>}
      [] f \in BoolFields  -> BoolTexts
      [] f \in ListFields  -> ListTexts
      [] f \in FloatFields -> FloatTexts
      [] f = 2  -> {<<"A","u","t","h","e","n","t","i","c","A","M","D">>, <<>>, <<"G","e","n","u","i","n","e","1">>, <<"G","e","n","u","i","n","e"," ","I","n","t","e","l">>}
      [] f = 5  -> {<<>>, <<"a","\r","b">>, <<" ","x"," ","y"," ">>}
      [] f = 7  -> HexTexts
      [] f = 9  -> CacheTexts
      [] f = 26 -> AddressTexts
      [] f = 27 -> {<<>>, <<" ","p","e","r","f","o","r","m","a","n","c","e">>, <<"p","e","r","f","o","r","m","a","n","c","e">>, <<"t","s","2">>, <<"a"," ","b">>, <<"a","_","b">>, <<"-">>, <<"p","e","r","f","o","r","m","a","n","c","e"," ">>}

SepTexts == {<<":">>, <<" ",":"," ">>, <<"\t",":","\t"," ","\t">>, <<>>, <<" ">>, <<"=">>}

EolTexts == {<<"\r","\n">>, <<>>, <<"\r">>, <<" ","\n">>, <<"x","\n">>}

GapTexts == {<<>>, <<"\n","\n">>, <<"\r","\n">>, <<" ","\n">>, <<"x","\n">>}

LeadTexts == {<<"\n">>, <<" ">>, <<"x","\n">>}

TrailTexts ==
    {<<"\n">>, <<"\n","\n">>, <<"\r","\n">>, <<"x">>, <<"g","a","r","b","a","g","e","\n">>, <<" ">>, <<"\n","p","r","o","c","e","s","s","o","r">>, <<"p","r","o","c","e","s","s","o","r","\t",":"," ","9","\n">>}

\* a listing of n records with at most one change to it
Doc(n, kind, rec, f, f2, txt) ==
    [n |-> n, kind |-> kind, rec |-> rec, f |-> f, f2 |-> f2, txt |-> txt]

\* Every listing of up to MaxRecords records, unchanged or with one change:
\* a field's value in its first or last record; in a one-record listing a
\* field's separator or line terminator, two lines swapped or a line dropped;
\* the blank line between two records; text before or after the records.
Docs ==
    {Doc(n, "none", 0, 0, 0, <<>>) : n \in 0..MaxRecords}
    \cup UNION {{Doc(n, "value", rec, f, 0, txt) : txt \in ValueTexts(f)} :
                   n \in 1..MaxRecords, rec \in 1..MaxRecords, f \in 1..NumFields}
    \cup {Doc(1, "sep", 1, f, 0, txt) : f \in 1..NumFields, txt \in SepTexts}
    \cup {Doc(1, "eol", 1, f, 0, txt) : f \in 1..NumFields, txt \in EolTexts}
    \cup {Doc(1, "swap", 1, f, f2, <<>>) : f \in 1..NumFields, f2 \in 1..NumFields}
    \cup {Doc(1, "drop", 1, f, 0, <<>>) : f \in 1..NumFields}
    \cup {Doc(n, "gap", rec, 0, 0, txt) :
             n \in 1..MaxRecords, rec \in 1..MaxRecords, txt \in GapTexts}
    \cup {Doc(n, "lead", 0, 0, 0, txt) : n \in 0..MaxRecords, txt \in LeadTexts}
    \cup {Doc(n, "trail", 0, 0, 0, txt) : n \in 0..MaxRecords, txt \in TrailTexts}

ValidDoc(d) ==
    /\ d.kind = "value" => d.rec \in {1, d.n}
    /\ d.kind = "swap" => d.f < d.f2
    /\ d.kind = "gap" => d.rec < d.n

On(d, kind, k, f) == d.kind = kind /\ d.rec = k /\ d.f = f

LineText(d, k, f) ==
    LineName(f)
    \o (IF On(d, "sep", k, f) THEN d.txt ELSE BaseSep(f))
    \o (IF On(d, "value", k, f) THEN d.txt ELSE BaseValue(k, f))
    \o (IF On(d, "eol", k, f) THEN d.txt ELSE <<"\n">>)

\* the fields of record k in the order of its lines
LineOrder(d, k) ==
    IF d.kind = "swap" /\ d.rec = k
    THEN [j \in 1..NumFields |-> IF j = d.f THEN d.f2 ELSE IF j = d.f2 THEN d.f ELSE j]
    ELSE IF d.kind = "drop" /\ d.rec = k
    THEN [j \in 1..(NumFields - 1) |-> IF j < d.f THEN j ELSE j + 1]
    ELSE [j \in 1..NumFields |-> j]

RecordText(d, k) ==
    LET order == LineOrder(d, k)
    IN  Flatten([j \in 1..Len(order) |-> LineText(d, k, order[j])])

GapText(d, k) ==
    IF k = d.n THEN <<>>
    ELSE IF d.kind = "gap" /\ d.rec = k THEN d.txt
    ELSE <<"\n">>

Render(d) ==
    (IF d.kind = "lead" THEN d.txt ELSE <<>>)
    \o Flatten([k \in 1..d.n |-> RecordText(d, k) \o GapText(d, k)])
    \o (IF d.kind = "trail" THEN d.txt ELSE <<>>)

\* ---------------------------------------------------------------- the parse

VARIABLES
    doc,        \* how the input was put together
    input,      \* the argument of cpuinfo
    pc,         \* "cpu" | "sep" | "cpus_ret" | "done"
    i,          \* separated_list1: where the remainder after the last element starts
    cpu_input,  \* cpu: where the remainder threaded through the field parsers starts
    idx,        \* cpu: the field parser to apply next
    vals,       \* cpu: the values decoded so far
    res,        \* separated_list1: the records collected
    err,        \* the last parse error: the field it arose in, its kind and place
    ret,        \* what cpus returned
    result      \* what cpuinfo returned

vars == <<doc, input, pc, i, cpu_input, idx, vals, res, err, ret, result>>

\* A remainder is a slice of the input: it is kept as the offset it starts at.
Slice(at) == Drop(input, at)

Offset(rest) == Len(input) - Len(rest)

NoErr == [field |-> 0, kind |-> "none", at |-> 0]

Pending == [kind |-> "none", rest |-> 0, val |-> <<>>]

Init ==
    /\ doc \in {d \in Docs : ValidDoc(d)}
    /\ input = Render(doc)
    /\ pc = "cpu"
    /\ i = 0
    /\ cpu_input = 0
    /\ idx = 1
    /\ vals = <<>>
    /\ res = <<>>
    /\ err = NoErr
    /\ ret = Pending
    /\ result = [kind |-> "none", val |-> <<>>]

\* one `let (input, x) = x(input)?` of cpu, the field parser returning r
FieldOkWith(r) ==
    /\ IsOk(r)
    /\ cpu_input' = Offset(r.rest)
    /\ vals' = Append(vals, r.val)
    /\ idx' = idx + 1
    /\ UNCHANGED <<doc, input, pc, i, res, err, ret, result>>

FieldOk ==
    /\ pc = "cpu"
    /\ idx <= NumFields
    /\ \E overflow_checks \in BOOLEAN :
          FieldOkWith(FieldParser(cpu_fields[idx], Slice(cpu_input), overflow_checks))

\* CpuOk with the record inserted at the front of the vector
CpuOk_push_front ==
    /\ pc = "cpu"
    /\ idx = NumFields + 1
    /\ res' = <<Cpu(vals)>> \o res
    /\ i' = cpu_input
    /\ pc' = "sep"
    /\ vals' = <<>>
    /\ idx' = 0
    /\ UNCHANGED <<doc, input, cpu_input, err, ret, result>>

\* the struct is built, cpu returns it and separated_list1 pushes it
CpuOk ==
    /\ pc = "cpu"
    /\ idx = NumFields + 1
    /\ res' = Append(res, Cpu(vals))
    /\ i' = cpu_input
    /\ pc' = "sep"
    /\ vals' = <<>>
    /\ idx' = 0
    /\ UNCHANGED <<doc, input, cpu_input, err, ret, result>>

ErrorOf(r) == [field |-> idx, kind |-> r.kind, at |-> Offset(r.rest)]

\* CpuErrWith on separated_list0: an Err::Error of the first element ends the
\* list with no record
CpuErrWith_list0(r) ==
    /\ r.kind = "Failure" \/ (r.kind = "Error" /\ res = <<>>)
    /\ err' = ErrorOf(r)
    /\ ret' = IF r.kind = "Error" THEN Ok(i, res)
              ELSE [kind |-> r.kind, rest |-> Offset(r.rest), val |-> <<>>]
    /\ pc' = "cpus_ret"
    /\ UNCHANGED <<doc, input, i, cpu_input, idx, vals, res, result>>

\* a field parser fails in the first record, or fails with Err::Failure: `?`
\* returns the error from cpu and separated_list1 returns it from cpus
CpuErrWith(r) ==
    /\ r.kind = "Failure" \/ (r.kind = "Error" /\ res = <<>>)
    /\ err' = ErrorOf(r)
    /\ ret' = [kind |-> r.kind, rest |-> Offset(r.rest), val |-> <<>>]
    /\ pc' = "cpus_ret"
    /\ UNCHANGED <<doc, input, i, cpu_input, idx, vals, res, result>>

CpuErr ==
    /\ pc = "cpu"
    /\ idx <= NumFields
    /\ \E overflow_checks \in BOOLEAN :
          CpuErrWith(FieldParser(cpu_fields[idx], Slice(cpu_input), overflow_checks))

\* a field parser fails with Err::Error in a later record: separated_list1
\* returns the records collected and the remainder before the separator
CpuErrLaterWith(r) ==
    /\ r.kind = "Error"
    /\ res # <<>>
    /\ err' = ErrorOf(r)
    /\ ret' = Ok(i, res)
    /\ pc' = "cpus_ret"
    /\ UNCHANGED <<doc, input, i, cpu_input, idx, vals, res, result>>

CpuErrLater ==
    /\ pc = "cpu"
    /\ idx <= NumFields
    /\ \E overflow_checks \in BOOLEAN :
          CpuErrLaterWith(FieldParser(cpu_fields[idx], Slice(cpu_input), overflow_checks))

\* `cache_size * 1024` overflows with overflow-checks on: the thread panics
CpuPanicWith(r) ==
    /\ r.kind = "Panic"
    /\ err' = ErrorOf(r)
    /\ result' = [kind |-> "Panic", val |-> <<>>]
    /\ pc' = "done"
    /\ UNCHANGED <<doc, input, i, cpu_input, idx, vals, res, ret>>

CpuPanic ==
    /\ pc = "cpu"
    /\ idx <= NumFields
    /\ \E overflow_checks \in BOOLEAN :
          CpuPanicWith(FieldParser(cpu_fields[idx], Slice(cpu_input), overflow_checks))

\* separated_list1: the separator matches (and consumed something), the next
\* element is tried
SepOk ==
    /\ pc = "sep"
    /\ LET s == line_ending(Slice(i))
       IN  /\ IsOk(s)
           /\ Offset(s.rest) # i
           /\ cpu_input' = Offset(s.rest)
    /\ idx' = 1
    /\ pc' = "cpu"
    /\ UNCHANGED <<doc, input, i, vals, res, err, ret, result>>

\* separated_list1: no separator, the list ends here
SepErr ==
    /\ pc = "sep"
    /\ ~IsOk(line_ending(Slice(i)))
    /\ ret' = Ok(i, res)
    /\ pc' = "cpus_ret"
    /\ UNCHANGED <<doc, input, i, cpu_input, idx, vals, res, err, result>>

\* cpuinfo: `let (_, cpus) = cpus(input)?; Ok(CpuInfo { cpus })`
CpuinfoOk ==
    /\ pc = "cpus_ret"
    /\ IsOk(ret)
    /\ result' = [kind |-> "Ok", val |-> [cpus |-> ret.val]]
    /\ pc' = "done"
    /\ UNCHANGED <<doc, input, i, cpu_input, idx, vals, res, err, ret>>

\* cpuinfo: `?` turns the nom error into the anyhow error it returns
CpuinfoErr ==
    /\ pc = "cpus_ret"
    /\ ~IsOk(ret)
    /\ result' = [kind |-> "Err", val |-> err]
    /\ pc' = "done"
    /\ UNCHANGED <<doc, input, i, cpu_input, idx, vals, res, err, ret>>

Next ==
    \/ FieldOk
    \/ CpuOk
    \/ CpuErr
    \/ CpuErrLater
    \/ CpuPanic
    \/ SepOk
    \/ SepErr
    \/ CpuinfoOk
    \/ CpuinfoErr

Spec == Init /\ [][Next]_vars

\* ---------------------------------------------------------------- properties

Done == pc = "done"

Returned(n) == result.kind = "Ok" /\ Len(result.val.cpus) = n

\* the listing is records 1..n as written, optionally followed by one blank line
WellFormedDoc(d) ==
    d.n >= 1 /\ (d.kind = "none" \/ (d.kind = "trail" /\ d.txt = <<"\n">>))

BaseCpus(n) == [k \in 1..n |-> BaseCpu(k)]

\* C1: a listing of N >= 1 well-formed records joined by one blank line, with or
\* without a blank line after the last, is accepted by cpus and by cpuinfo and
\* yields exactly its N records in input order.
C1_RecordsInOrder ==
    (Done /\ WellFormedDoc(doc)) =>
        /\ IsOk(ret)
        /\ ret.val = BaseCpus(doc.n)
        /\ result.kind = "Ok"
        /\ result.val.cpus = BaseCpus(doc.n)

C1_Witness ==
    /\ Done
    /\ doc.kind = "trail"
    /\ doc.txt = <<"\n">>
    /\ doc.n >= 2
    /\ Returned(doc.n)
    /\ result.val.cpus[2].processor = <<0, 1>>

\* C2: when text that is not a blank line followed by a well-formed record
\* remains after the last record, cpuinfo returns an error.
C2_TrailingTextFails ==
    (Done /\ doc.kind = "trail" /\ doc.n >= 1 /\ doc.txt \notin {<<"\n">>, <<"\r","\n">>}) =>
        result.kind = "Err"

\* C3: with the blank line between two well-formed records left out, cpuinfo
\* returns an error, not a document.
C3_MissingSeparatorFails ==
    (Done /\ doc.kind = "gap" /\ doc.txt = <<>>) => result.kind = "Err"

\* a record of the listing has a line missing, two lines out of order, a line
\* without its colon, or a boolean field whose value is neither yes nor no
MalformedRecordDoc(d) ==
    \/ d.kind \in {"swap", "drop"}
    \/ d.kind = "sep" /\ d.txt \in {<<>>, <<" ">>, <<"=">>}
    \/ d.kind = "value" /\ d.f \in BoolFields /\ d.txt \notin {<<"y","e","s">>, <<"n","o">>}

\* C4: if any record, the first or a later one, is malformed, cpuinfo returns a
\* failure and never a document of the records before it.
C4_NoPartialResult ==
    (Done /\ MalformedRecordDoc(doc)) => result.kind # "Ok"

\* the input does not begin with a well-formed record
NoLeadingRecord(d) ==
    \/ d.n = 0
    \/ d.kind = "lead"
    \/ MalformedRecordDoc(d) /\ d.rec = 1

\* C5: an input with zero records fails: the empty input and every input that
\* does not begin with a well-formed record make cpus and cpuinfo return an
\* error, and a returned document has at least one record.
C5_ZeroRecordsFail ==
    Done =>
        /\ NoLeadingRecord(doc) => (~IsOk(ret) /\ result.kind = "Err")
        /\ result.kind = "Ok" => Len(result.val.cpus) >= 1

C5_Witness == Done /\ input = <<>> /\ result.kind = "Err"

\* where the text of a one-record listing's f-th line starts
LineStart(d, f) == Len(Flatten([j \in 1..(f - 1) |-> LineText(d, 1, LineOrder(d, 1)[j])]))

\* C6: cpu applies the 27 field parsers in the fixed order, each on the
\* remainder left by the one before; it returns a record only when all 27
\* succeeded; with two lines swapped (or one missing) it fails at the first
\* out-of-place field name and applies no later field parser.
C6_FixedOrder ==
    /\ pc = "cpu" => (Len(vals) = idx - 1 /\ idx <= NumFields + 1)
    /\ (pc = "cpu" /\ idx = NumFields + 1 /\ doc.kind = "none") =>
           Cpu(vals) = BaseCpu(Len(res) + 1)
    /\ (pc = "cpu" /\ doc.kind \in {"swap", "drop"}) => idx <= doc.f
    /\ (Done /\ doc.kind \in {"swap", "drop"}) =>
           /\ result.kind = "Err"
           /\ result.val.field = doc.f
           /\ Len(vals) = doc.f - 1
           /\ result.val.at >= LineStart(doc, doc.f)
    /\ (Done /\ doc.kind = "swap") =>
           result.val.at < LineStart(doc, doc.f) + Len(LineName(doc.f2))

C6_Witness ==
    /\ Done
    /\ doc.kind = "swap"
    /\ doc.f = 2
    /\ doc.f2 = 3
    /\ result.kind = "Err"
    /\ result.val.field = 2
    /\ Len(vals) = 1

\* the field the listing changes is being decided in its record
InChangedRecord == doc.kind = "value" /\ Len(res) = doc.rec - 1

\* ... its parser has just accepted the line: its value is vals[doc.f]
Accepted == InChangedRecord /\ pc = "cpu" /\ idx = doc.f + 1

\* ... its parser has rejected the line
Rejected == InChangedRecord /\ pc # "cpu" /\ err.field = doc.f

RECURSIVE Limbs(_, _, _)
\* the exact value of decimal digits ds, as limbs with the high one unreduced
Limbs(ds, k, acc) ==
    IF k > Len(ds) THEN acc
    ELSE Limbs(ds, k + 1,
               <<acc[1] * 10 + ((acc[2] * 10 + DecValue(<<ds[k]>>, 1, 0)) \div 65536),
                 (acc[2] * 10 + DecValue(<<ds[k]>>, 1, 0)) % 65536>>)

\* the digits a cache size value declares
DeclaredKB(txt) == Take(txt, Span(txt, DecDigits))

\* C7: whenever the cache size line is accepted with declared value N, the
\* stored cache_size is N * 1024 exactly.
C7_CacheSizeInBytes ==
    (Accepted /\ doc.f = 9) =>
        vals[9] = <<Limbs(DeclaredKB(doc.txt), 1, <<0, 0>>)[1] * 1024
                      + (Limbs(DeclaredKB(doc.txt), 1, <<0, 0>>)[2] * 1024) \div 65536,
                    (Limbs(DeclaredKB(doc.txt), 1, <<0, 0>>)[2] * 1024) % 65536>>

HexDigitValue ==
    [c \in HexChars |->
        CASE c \in DecDigits -> CHOOSE d \in 0..9 : <<"0","1","2","3","4","5","6","7","8","9">>[d + 1] = c
          [] c \in LowerHex  -> CHOOSE d \in 10..15 : <<"a","b","c","d","e","f">>[d - 9] = c
          [] c \in UpperHex  -> CHOOSE d \in 10..15 : <<"A","B","C","D","E","F">>[d - 9] = c]

RECURSIVE HexNumber(_)
\* the base-16 value of a short digit string, least significant digit last
HexNumber(ds) ==
    IF ds = <<>> THEN 0
    ELSE 16 * HexNumber(Take(ds, Len(ds) - 1)) + HexDigitValue[ds[Len(ds)]]

\* 0x or 0X, then one or more hex digits, then nothing
HexLiteral(txt) ==
    /\ Len(txt) >= 3
    /\ txt[1] = "0"
    /\ txt[2] \in {"x","X"}
    /\ \A j \in 3..Len(txt) : txt[j] \in HexChars

\* the value of a hex literal of at most 11 digits, as limbs
HexLiteralValue(txt) ==
    LET ds == Drop(txt, 2)
        lo == IF Len(ds) > 4 THEN Drop(ds, Len(ds) - 4) ELSE ds
        hi == IF Len(ds) > 4 THEN Take(ds, Len(ds) - 4) ELSE <<>>
    IN  <<HexNumber(hi), HexNumber(lo)>>

\* C8: microcode is accepted only as 0x/0X followed by hex digits up to the
\* line terminator, and then stores their base-16 value; 0xf0 gives 240 and
\* 0XAB gives 171.
C8_MicrocodeHex ==
    (doc.kind = "value" /\ doc.f = 7) =>
        /\ Accepted => (HexLiteral(doc.txt) /\ vals[7] = HexLiteralValue(doc.txt))
        /\ (Accepted /\ doc.txt = <<"0","x","f","0">>) => vals[7] = <<0, 240>>
        /\ (Accepted /\ doc.txt = <<"0","X","A","B">>) => vals[7] = <<0, 171>>
        /\ Rejected => doc.txt \notin {<<"0","x","f","0">>, <<"0","X","A","B">>, <<"0","x","a","B">>, <<"0","x","0">>, <<"0","x","F","F","F","F","F","F","F","F">>}

C8_Witness ==
    /\ Accepted
    /\ doc.f = 7
    /\ doc.txt = <<"0","X","A","B">>
    /\ vals[7] = <<0, 171>>

\* C9: a boolean field accepts exactly the values yes and no, as TRUE and FALSE.
C9_BooleanYesNo ==
    (doc.kind = "value" /\ doc.f \in BoolFields) =>
        /\ Accepted => (doc.txt \in {<<"y","e","s">>, <<"n","o">>} /\ vals[doc.f] = (doc.txt = <<"y","e","s">>))
        /\ Rejected => doc.txt \notin {<<"y","e","s">>, <<"n","o">>}

C9_Witness ==
    /\ Accepted
    /\ doc.f = 19
    /\ doc.txt = <<"n","o">>
    /\ vals[19] = FALSE

\* zero or more non-empty tokens over [a-z0-9_], single spaces between them
TokenList(txt) ==
    /\ \A j \in 1..Len(txt) : txt[j] \in LowerAlpha \cup DecDigits \cup {"_", " "}
    /\ txt # <<>> => (txt[1] # " " /\ txt[Len(txt)] # " ")
    /\ \A j \in 1..(Len(txt) - 1) : ~(txt[j] = " " /\ txt[j + 1] = " ")

RECURSIVE SplitAtSpaces(_, _, _)
\* the maximal space-free pieces of txt, in order
SplitAtSpaces(txt, k, piece) ==
    IF k > Len(txt) THEN (IF piece = <<>> THEN <<>> ELSE <<piece>>)
    ELSE IF txt[k] = " " THEN <<piece>> \o SplitAtSpaces(txt, k + 1, <<>>)
    ELSE SplitAtSpaces(txt, k + 1, Append(piece, txt[k]))

\* C10: a list field is accepted exactly when its value is zero or more tokens
\* over [a-z0-9_] separated by single spaces, and decodes to those tokens in
\* order, duplicates kept; the empty value gives the empty list.
C10_TokenList ==
    (doc.kind = "value" /\ doc.f \in ListFields) =>
        /\ Accepted => (TokenList(doc.txt) /\ vals[doc.f] = SplitAtSpaces(doc.txt, 1, <<>>))
        /\ Rejected => ~TokenList(doc.txt)
        /\ (Accepted /\ doc.txt = <<>>) => vals[doc.f] = <<>>

C10_Witness ==
    /\ Accepted
    /\ doc.f = 20
    /\ doc.txt = <<"d","e"," ","d","e">>
    /\ vals[20] = <<<<"d","e">>, <<"d","e">>>>

AlnumChars == DecDigits \cup LowerAlpha \cup UpperAlpha

\* the value text after the spaces and tabs that the separator takes
AfterBlanks(txt) == Drop(txt, Span(txt, {" ", "\t"}))

\* nothing, or one alphanumeric token, stands between separator and line break
TokenOrNothing(txt) == \A j \in 1..Len(AfterBlanks(txt)) : AfterBlanks(txt)[j] \in AlnumChars

PowerValue(txt) == IF AfterBlanks(txt) = <<>> THEN None ELSE Some(AfterBlanks(txt))

\* C11: power management yields no value when nothing stands between the
\* separator and the line break, and the token as a present value when one
\* alphanumeric token stands there; in both cases the line is accepted.
C11_PowerManagement ==
    /\ (pc = "cpu" /\ idx = NumFields + 1 /\ doc.kind = "none") => vals[27] = None
    /\ (doc.kind = "value" /\ doc.f = 27) =>
           /\ Accepted => (TokenOrNothing(doc.txt) /\ vals[27] = PowerValue(doc.txt))
           /\ Rejected => ~TokenOrNothing(doc.txt)
           /\ (Done /\ doc.n = 1 /\ TokenOrNothing(doc.txt)) =>
                  /\ result.kind = "Ok"
                  /\ result.val.cpus[1].power_management = PowerValue(doc.txt)

C11_Witness ==
    /\ Accepted
    /\ doc.f = 27
    /\ doc.txt = <<" ","p","e","r","f","o","r","m","a","n","c","e">>
    /\ vals[27] = Some(<<"p","e","r","f","o","r","m","a","n","c","e">>)

\* the digits txt starts with
LeadingDigits(txt) == Take(txt, Span(txt, DecDigits))

\* what follows the digits txt starts with
AfterDigits(txt) == Drop(txt, Span(txt, DecDigits))

\* the text of an address sizes value after "<P> bits physical, "
VirtualPart(txt) == Drop(AfterDigits(txt), Len(<<" ","b","i","t","s"," ","p","h","y","s","i","c","a","l",","," ">>))

\* digits that stand for a number of at most 2^32 - 1
U32Digits(ds) == ds # <<>> /\ Limbs(ds, 1, <<0, 0>>)[1] < 65536

\* txt is "<P> bits physical, <V> bits virtual" with P and V 32-bit numbers
AddressForm(txt) ==
    /\ U32Digits(LeadingDigits(txt))
    /\ StartsWith(AfterDigits(txt), <<" ","b","i","t","s"," ","p","h","y","s","i","c","a","l",","," ">>)
    /\ U32Digits(LeadingDigits(VirtualPart(txt)))
    /\ AfterDigits(VirtualPart(txt)) = <<" ","b","i","t","s"," ","v","i","r","t","u","a","l">>

\* C12: address sizes accepts exactly "<P> bits physical, <V> bits virtual" and
\* stores physical_size = P and virtual_size = V; a deviation in the fixed text
\* makes the field fail.
C12_AddressSizes ==
    (doc.kind = "value" /\ doc.f = 26) =>
        /\ Accepted =>
              /\ AddressForm(doc.txt)
              /\ vals[26].physical_size = Limbs(LeadingDigits(doc.txt), 1, <<0, 0>>)
              /\ vals[26].virtual_size = Limbs(LeadingDigits(VirtualPart(doc.txt)), 1, <<0, 0>>)
        /\ Rejected => ~AddressForm(doc.txt)
        /\ (Done /\ doc.n = 1) => (result.kind = "Ok" <=> AddressForm(doc.txt))

C12_Witness ==
    /\ Accepted
    /\ doc.f = 26
    /\ doc.txt = <<"4","8"," ","b","i","t","s"," ","p","h","y","s","i","c","a","l",","," ","3","9"," ","b","i","t","s"," ","v","i","r","t","u","a","l">>
    /\ vals[26] = [physical_size |-> <<0, 48>>, virtual_size |-> <<0, 39>>]

Blanks == {" ", "\t"}

\* optional spaces and tabs, a colon, optional spaces and tabs, and no more
SeparatorForm(txt) ==
    /\ StartsWith(AfterBlanks(txt), <<":">>)
    /\ \A j \in 1..Len(Drop(AfterBlanks(txt), 1)) : Drop(AfterBlanks(txt), 1)[j] \in Blanks

\* what follows the name and the optional spaces and tabs in a line of field f
AfterName(f, line) == AfterBlanks(Drop(line, Len(LineName(f))))

\* line is the name of field f, optional spaces and tabs, a colon and text up
\* to the first line break, which ends it
LineForm(f, line) ==
    /\ StartsWith(line, LineName(f))
    /\ StartsWith(AfterName(f, line), <<":">>)
    /\ Len(line) >= 1
    /\ line[Len(line)] = "\n"
    /\ \A j \in 1..(Len(line) - 1) : line[j] = "\n" => FALSE

\* the fields whose parser is built by field_value
GenericFields == (1..NumFields) \ {9}

\* the fields whose decoder can take letters that follow the value as part of
\* it (after an empty value, a blank belongs to the separator)
OpenEndedFields == {2, 5, 20, 21, 22, 27}

\* one field parser of cpu has succeeded in this step
FieldStep == pc = "cpu" /\ pc' = "cpu" /\ idx' = idx + 1

C13_State ==
    /\ (Done /\ doc.kind = "sep" /\ SeparatorForm(doc.txt)) =>
           (result.kind = "Ok" /\ result.val.cpus = BaseCpus(1))
    /\ (Done /\ doc.kind = "sep" /\ ~SeparatorForm(doc.txt)) =>
           (result.kind = "Err" /\ result.val.field = doc.f /\ Len(vals) = doc.f - 1)
    /\ (Done /\ doc.kind = "eol" /\ doc.txt = <<"\r","\n">>) =>
           (result.kind = "Ok" /\ result.val.cpus = BaseCpus(1))
    /\ (Done /\ doc.kind = "eol" /\ doc.txt # <<"\r","\n">> /\ doc.f \in GenericFields \ OpenEndedFields) =>
           (result.kind = "Err" /\ result.val.field = doc.f /\ Len(vals) = doc.f - 1)
    /\ (Done /\ doc.kind = "eol" /\ doc.txt # <<"\r","\n">> /\ doc.f \in OpenEndedFields) =>
           \/ result.kind = "Err" /\ result.val.field >= doc.f
           \/ result.kind = "Ok" /\ result.val.cpus # BaseCpus(1)
           \/ result.kind = "Ok" /\ BaseValue(1, doc.f) = <<>> /\ doc.txt = <<" ","\n">>
    /\ (Done /\ doc.kind = "value" /\ doc.n = 1 /\ doc.f \in GenericFields /\ result.kind = "Err") =>
           result.val.field = doc.f

C13_Step ==
    (FieldStep /\ idx \in GenericFields) =>
        /\ LineForm(idx, SubSeq(input, cpu_input + 1, cpu_input'))
        /\ Len(vals') = idx

\* C13: a generic field parser accepts the field name, optional spaces and
\* tabs, a colon, optional spaces and tabs, the decoded value and a line
\* terminator, and nothing else: it fails when the name does not match, the
\* colon is missing, the value decoder fails or the line is not terminated
\* after the decoded value.
C13_GenericFieldLine == []C13_State /\ [][C13_Step]_vars

C13_Witness ==
    /\ Done
    /\ doc.kind = "sep"
    /\ doc.f = 5
    /\ doc.txt = <<"\t",":","\t"," ","\t">>
    /\ result.kind = "Ok"

\* C14: the cache size line is accepted only when the integer is followed by
\* exactly one space and KB: no space, more than one space, another unit or no
\* suffix is rejected.
C14_CacheSuffix ==
    (doc.kind = "value" /\ doc.f = 9 /\ Accepted) => AfterDigits(doc.txt) = <<" ","K","B">>

\* a number that every step of the parse lowers: the length of the unconsumed
\* remainder, then the steps left once cpus has returned
Rank ==
    CASE pc = "cpu"      -> 5 * (Len(input) + 1 - cpu_input) + 4
      [] pc = "sep"      -> 5 * (Len(input) + 1 - i) + 3
      [] pc = "cpus_ret" -> 1
      [] pc = "done"     -> 0

\* the remainder after a parsed field, record or separator is a strictly
\* shorter suffix of the one before it, and every step lowers Rank
ForwardScan ==
    /\ Rank' < Rank
    /\ FieldStep => cpu_input' > cpu_input
    /\ (pc = "cpu" /\ pc' = "sep") => (i' > i /\ i' = cpu_input /\ Len(res') = Len(res) + 1)
    /\ (pc = "sep" /\ pc' = "cpu") => (cpu_input' > i /\ cpu_input' <= Len(input))

\* some action of the parse can be taken: the field parser's result is one that
\* cpu and separated_list1 handle, a separator that matched has consumed input,
\* and what cpus returned is handled by cpuinfo
HasNextStep ==
    CASE pc = "cpu" /\ idx <= NumFields ->
             \A overflow_checks \in BOOLEAN :
                 FieldParser(cpu_fields[idx], Slice(cpu_input), overflow_checks).kind
                     \in {"Ok", "Error", "Failure", "Panic"}
      [] pc = "cpu" /\ idx > NumFields -> idx = NumFields + 1
      [] pc = "sep" ->
             IsOk(line_ending(Slice(i))) => Offset(line_ending(Slice(i)).rest) # i
      [] pc = "cpus_ret" -> TRUE
      [] pc = "done" -> FALSE

\* the parse is not stuck before its end, and its end is a document or an error
FinalResult ==
    /\ Rank \in 0..(5 * (Len(input) + 1) + 4)
    /\ ~Done => HasNextStep
    /\ Done => result.kind \in {"Ok", "Err"}

\* C15: for every finite input the parse terminates with a final result, a
\* document or an error, and it is a single forward scan: each parsed field,
\* separator or record leaves a strictly shorter remainder, so the record loop
\* cannot repeat without progress.
C15_TerminatesForwardScan == []FinalResult /\ [][ForwardScan]_vars

\* the records the listing's longest prefix of the form R (blank-line R)* holds,
\* for the listings whose records are all as written
PrefixRecords(d) ==
    CASE d.kind \in {"none", "trail"} -> d.n
      [] d.kind = "lead" -> 0
      [] d.kind = "gap"  -> IF d.txt = <<"\r","\n">> THEN d.n ELSE d.rec

\* C16: cpuinfo returns a document if and only if the input begins with one
\* well-formed record (one that cpu accepts); the document holds exactly the
\* records of the longest prefix R (blank-line R)*, and what remains after the
\* prefix is discarded, whatever it is.
C16_LongestPrefix ==
    Done =>
        /\ result.kind = "Ok" <=> res # <<>>
        /\ result.kind = "Ok" => result.val = [cpus |-> res]
        /\ doc.kind \in {"none", "trail", "lead", "gap"} =>
              /\ result.kind = "Ok" <=> PrefixRecords(doc) >= 1
              /\ result.kind = "Ok" => result.val.cpus = BaseCpus(PrefixRecords(doc))
        /\ (doc.kind = "value" /\ doc.rec = 2) =>
              /\ result.kind = "Ok"
              /\ Len(result.val.cpus) \in {1, 2}
              /\ result.val.cpus[1] = BaseCpu(1)
              /\ Len(result.val.cpus) = 1 <=> err.field = doc.f

\* the exact product of the declared kilobytes and 1024, high limb unreduced
ExactBytes(txt) ==
    <<Limbs(DeclaredKB(txt), 1, <<0, 0>>)[1] * 1024
          + (Limbs(DeclaredKB(txt), 1, <<0, 0>>)[2] * 1024) \div 65536,
      (Limbs(DeclaredKB(txt), 1, <<0, 0>>)[2] * 1024) % 65536>>

\* a decimal integer field stores the exact value of its digits, which fits
DecimalFits ==
    (doc.kind = "value" /\ doc.f \in U32Fields) =>
        /\ Accepted => (U32Digits(LeadingDigits(doc.txt))
                          /\ vals[doc.f] = Limbs(LeadingDigits(doc.txt), 1, <<0, 0>>))
        /\ (Done /\ doc.n = 1 /\ LeadingDigits(doc.txt) # <<>> /\ ~U32Digits(LeadingDigits(doc.txt))) =>
               (result.kind = "Err" /\ result.val.field = doc.f)

\* a microcode literal stores the exact value of its digits, which fits
HexFits ==
    (doc.kind = "value" /\ doc.f = 7) =>
        /\ Accepted => (vals[7] = HexLiteralValue(doc.txt) /\ vals[7][1] < 65536)
        /\ (Done /\ doc.n = 1 /\ HexLiteral(doc.txt) /\ HexLiteralValue(doc.txt)[1] >= 65536) =>
               (result.kind = "Err" /\ result.val.field = 7)

\* the numbers of address sizes fit
AddressFits ==
    (doc.kind = "value" /\ doc.f = 26 /\ Accepted) =>
        (vals[26].physical_size[1] < 65536 /\ vals[26].virtual_size[1] < 65536)

\* the stored cache size is the exact byte count, which fits
CacheFits ==
    (doc.kind = "value" /\ doc.f = 9) =>
        /\ Accepted => (ExactBytes(doc.txt)[1] < 65536 /\ vals[9] = ExactBytes(doc.txt))
        /\ result.kind # "Panic"

\* C17: a numeric value that does not fit in 32 unsigned bits is an error and
\* never a wrapped or truncated stored value: every stored number is the exact
\* value of its text, and a decimal field or a microcode literal above
\* 2^32 - 1 makes the field parser and the record fail.
C17_NoWrappedValue == DecimalFits /\ HexFits /\ AddressFits /\ CacheFits

====
